---- MODULE Spec2Model ----
(***************************************************************************)
(* Model of src/app.py: a Dash dashboard over a static survey data frame.  *)
(* Four callbacks filter the frame by age range and gender and render a    *)
(* scatter plot, a symptoms bar chart, a correlation heatmap and a text    *)
(* summary.  The state is the loaded frame, the values of the four         *)
(* controls, the outputs shown, and the callbacks dispatched but not yet   *)
(* run.                                                                    *)
(***************************************************************************)
EXTENDS Integers, Sequences, FiniteSets, TLC

VARIABLES df, loaded, x_col, y_col, gender, age_range,
          pending, args, filtered, outcome, out, summary, changes

vars == <<df, loaded, x_col, y_col, gender, age_range,
          pending, args, filtered, outcome, out, summary, changes>>

\* ------------------------------------------------------------------ bounds
\* Longest data frame drawn.
MaxRows == 2
\* Ages range over 1..MaxAge.
MaxAge == 2
\* Control changes made by the user in one run of the page.
MaxChanges == 2

\* ------------------------------------------------------------ the data frame
\* binary_columns, in the order the code lists them.
binary_columns == <<"SMOKING", "YELLOW_FINGERS", "ANXIETY", "PEER_PRESSURE",
                    "CHRONIC DISEASE", "FATIGUE", "ALLERGY", "WHEEZING",
                    "ALCOHOL CONSUMING", "COUGHING", "SHORTNESS OF BREATH",
                    "SWALLOWING DIFFICULTY", "CHEST PAIN">>

\* df.columns: the two demographic columns, the binary columns, the label.
Columns == <<"GENDER", "AGE">> \o binary_columns \o <<"LUNG_CANCER">>

Range(s) == {s[i] : i \in 1..Len(s)}

\* The sequence <<f[1], ..., f[n]>>, built element by element.
RECURSIVE Listed(_, _)
Listed(f, n) == IF n = 0 THEN <<>> ELSE Append(Listed(f, n - 1), f[n])

\* The value of a python None for a control, and the output nothing was
\* delivered to yet (or to which None was delivered).
None == "<None>"
NoValue == [kind |-> "None"]
\* A local name not bound in the last invocation.
Unbound == [bound |-> FALSE]
Bound(f) == [bound |-> TRUE, frame |-> f]

Genders == {"M", "F"}

\* Answer patterns of a survey row: the binary columns answered 1 (the others
\* are 0) and the outcome label.
Kinds == << [ones |-> {"SMOKING"}, cancer |-> "YES"],
            [ones |-> {"COUGHING", "CHEST PAIN"}, cancer |-> "YES"],
            [ones |-> {"SMOKING", "YELLOW_FINGERS", "COUGHING"}, cancer |-> "NO"] >>

\* One row of the frame: its index label and a value per column.
MkRow(i, g, a, k) ==
    [c \in Range(Columns) \cup {"index"} |->
        CASE c = "index" -> i
          [] c = "GENDER" -> g
          [] c = "AGE" -> a
          [] c = "LUNG_CANCER" -> k.cancer
          [] OTHER -> IF c \in k.ones THEN 1 ELSE 0]

\* The rows a frame is drawn from, numbered: gender, age and answer pattern.
NumChoices == Cardinality(Genders) * MaxAge * Len(Kinds)
Choice(k) ==
    [gender |-> IF (k - 1) % 2 = 0 THEN "M" ELSE "F",
     age    |-> (((k - 1) \div 2) % MaxAge) + 1,
     kind   |-> Kinds[((k - 1) \div (2 * MaxAge)) + 1]]

\* pd.read_csv: a non-empty frame with a RangeIndex starting at 0.  No
\* callback looks at the order of the rows, so each collection of rows is
\* drawn in one order only.
Datasets ==
    UNION { { [i \in 1..n |-> MkRow(i - 1, Choice(f[i]).gender, Choice(f[i]).age,
                                    Choice(f[i]).kind)] :
              f \in {g \in [1..n -> 1..NumChoices] :
                        \A i \in 1..(n - 1) : g[i] <= g[i + 1]} } : n \in 1..MaxRows }

\* The static frame of the running dashboard: genders alternate, ages and
\* answer patterns cycle.
SampleDf ==
    [i \in 1..MaxRows |->
        MkRow(i - 1, IF i % 2 = 1 THEN "M" ELSE "F",
              ((i - 1) % MaxAge) + 1, Kinds[((i - 1) % Len(Kinds)) + 1])]

\* ------------------------------------------------------------ pandas pieces
\* Series.sum() of one column of a frame (0 for an empty frame).
RECURSIVE ColumnSum(_, _)
ColumnSum(f, c) ==
    IF Len(f) = 0 THEN 0 ELSE f[1][c] + ColumnSum(Tail(f), c)

\* frame[cols].sum(): one sum per column name.
Sums(f, cols) == [c \in Range(cols) |-> ColumnSum(f, c)]

\* Variant: the sums sorted in ascending order (ascending=True).
SortValuesDescending_Ascending(cols, val) ==
    LET n == Len(cols)
        v == Listed([i \in 1..n |-> val[cols[i]]], n)
        before == Listed([i \in 1..n |->
                     Cardinality({j \in 1..n : v[j] < v[i] \/ (v[j] = v[i] /\ j < i)})], n)
    IN  Listed([p \in 1..n |-> cols[CHOOSE i \in 1..n : before[i] = p - 1]], n)

\* Series.sort_values(ascending=False) of the sums, as the labels in their new
\* order.  For a series this short numpy's sort is an insertion sort, and
\* pandas reverses before and after it, so equal sums keep their listed order:
\* label i goes behind every larger sum and every equal sum listed before it.
SortValuesDescending(cols, val) ==
    LET n == Len(cols)
        v == Listed([i \in 1..n |-> val[cols[i]]], n)
        before == Listed([i \in 1..n |->
                     Cardinality({j \in 1..n : v[j] > v[i] \/ (v[j] = v[i] /\ j < i)})], n)
    IN  Listed([p \in 1..n |-> cols[CHOOSE i \in 1..n : before[i] = p - 1]], n)

\* Series.idxmax(): the first label, in column order, holding the largest sum.
IdxMax(cols, val) ==
    LET n == Len(cols)
        v == Listed([i \in 1..n |-> val[cols[i]]], n)
        largest == CHOOSE m \in Range(v) : \A i \in 1..n : v[i] <= m
        first == CHOOSE i \in 1..n : v[i] = largest /\ \A j \in 1..(i - 1) : v[j] # largest
    IN  cols[first]

\* frame['LUNG_CANCER'].value_counts().get('YES', 0)
CountYes(f) == Len(SelectSeq(f, LAMBDA r : r["LUNG_CANCER"] = "YES"))

\* A quotient printed with the :.2f format, in hundredths.
Format2f(num, den) == (200 * num + den) \div (2 * den)

\* frame.drop(names, axis=1): the remaining column names, in order.
DropColumns(cols, names) == SelectSeq(cols, LAMBDA c : c \notin names)

\* ------------------------------------------------------------ the layout
Callbacks == {"update_scatter_plot", "update_symptoms_bar_chart",
              "update_correlation_heatmap", "update_summary"}

\* Variant: the bar chart's decorator lists the gender filter only.
Inputs_BarWithoutSlider(cb) ==
    CASE cb = "update_scatter_plot" ->
            {"x-axis-dropdown", "y-axis-dropdown", "gender-filter", "age-range-slider"}
      [] cb = "update_symptoms_bar_chart" -> {"gender-filter"}
      [] OTHER -> {"gender-filter", "age-range-slider"}

\* The Input(...) lists of the four @app.callback decorators.
Inputs(cb) ==
    IF cb = "update_scatter_plot"
    THEN {"x-axis-dropdown", "y-axis-dropdown", "gender-filter", "age-range-slider"}
    ELSE {"gender-filter", "age-range-slider"}

\* The callbacks the framework dispatches when a control's value changes.
Triggered(control) == {cb \in Callbacks : control \in Inputs(cb)}

\* Dropdown options: every column of the frame but the label.
DropdownOptions == Range(Columns) \ {"LUNG_CANCER"}
\* The options the model's user picks among; a cleared dropdown holds None.
AxisChoices == {"AGE", "SMOKING"}
GenderOptions == {"All", "M", "F"}

\* df['AGE'].min() and df['AGE'].max(), the ends of the slider.
AgeMin(d) == CHOOSE a \in {d[i]["AGE"] : i \in 1..Len(d)} :
                 \A i \in 1..Len(d) : a <= d[i]["AGE"]
AgeMax(d) == CHOOSE a \in {d[i]["AGE"] : i \in 1..Len(d)} :
                 \A i \in 1..Len(d) : a >= d[i]["AGE"]

\* python truthiness of a dropdown value: None and '' are false.
Falsy(v) == v = None \/ v = ""

\* ------------------------------------------------------------ the callbacks
\* Each callback carries its own copy of the two filter statements.
ScatterFiltered(d, g, r) ==
    LET byAge == SelectSeq(d, LAMBDA row : row["AGE"] >= r[1] /\ row["AGE"] <= r[2])
    IN  IF g # "All" THEN SelectSeq(byAge, LAMBDA row : row["GENDER"] = g) ELSE byAge

BarFiltered(d, g, r) ==
    LET byAge == SelectSeq(d, LAMBDA row : row["AGE"] >= r[1] /\ row["AGE"] <= r[2])
    IN  IF g # "All" THEN SelectSeq(byAge, LAMBDA row : row["GENDER"] = g) ELSE byAge

\* Variant: the upper end of the age range is excluded.
HeatmapFiltered_Exclusive(d, g, r) ==
    LET byAge == SelectSeq(d, LAMBDA row : row["AGE"] >= r[1] /\ row["AGE"] < r[2])
    IN  IF g # "All" THEN SelectSeq(byAge, LAMBDA row : row["GENDER"] = g) ELSE byAge

HeatmapFiltered(d, g, r) ==
    LET byAge == SelectSeq(d, LAMBDA row : row["AGE"] >= r[1] /\ row["AGE"] <= r[2])
    IN  IF g # "All" THEN SelectSeq(byAge, LAMBDA row : row["GENDER"] = g) ELSE byAge

SummaryFiltered(d, g, r) ==
    LET byAge == SelectSeq(d, LAMBDA row : row["AGE"] >= r[1] /\ row["AGE"] <= r[2])
    IN  IF g # "All" THEN SelectSeq(byAge, LAMBDA row : row["GENDER"] = g) ELSE byAge

\* px.scatter: one point per row of the frame, coloured by the label, with
\* AGE and GENDER as hover data.
ScatterFigure(f, x, y) ==
    [kind |-> "scatter", title |-> <<x, "vs", y>>,
     points |-> Listed([i \in 1..Len(f) |->
                          [index |-> f[i]["index"], x |-> f[i][x], y |-> f[i][y],
                           color |-> f[i]["LUNG_CANCER"],
                           AGE |-> f[i]["AGE"], GENDER |-> f[i]["GENDER"]]], Len(f))]

\* Variant: an empty figure is returned where PreventUpdate is raised.
update_scatter_plot_EmptyFigure(d, x, y, g, r) ==
    IF Falsy(x) \/ Falsy(y)
    THEN [outcome |-> "returned", filtered |-> Unbound,
          value |-> [kind |-> "scatter", title |-> <<x, "vs", y>>, points |-> <<>>]]
    ELSE LET f == ScatterFiltered(d, g, r)
         IN  [outcome |-> "returned", filtered |-> Bound(f),
              value |-> ScatterFigure(f, x, y)]

update_scatter_plot(d, x, y, g, r) ==
    IF Falsy(x) \/ Falsy(y)
    THEN [outcome |-> "PreventUpdate", filtered |-> Unbound, value |-> NoValue]
    ELSE LET f == ScatterFiltered(d, g, r)
         IN  [outcome |-> "returned", filtered |-> Bound(f),
              value |-> ScatterFigure(f, x, y)]

\* The symptoms list of update_symptoms_bar_chart.
symptoms == <<"YELLOW_FINGERS", "ANXIETY", "PEER_PRESSURE", "CHRONIC DISEASE",
              "FATIGUE", "ALLERGY", "WHEEZING", "ALCOHOL CONSUMING", "COUGHING",
              "SHORTNESS OF BREATH", "SWALLOWING DIFFICULTY", "CHEST PAIN">>

\* px.bar over symptom_counts: bar p has label x[p] and height y[p].
BarFigure(f) ==
    LET counts == Sums(f, symptoms)
        order  == SortValuesDescending(symptoms, counts)
    IN  [kind |-> "bar", title |-> "Prevalence of Symptoms",
         x |-> order,
         y |-> Listed([p \in 1..Len(order) |-> counts[order[p]]], Len(order))]

update_symptoms_bar_chart(d, g, r) ==
    LET f == BarFiltered(d, g, r)
    IN  [outcome |-> "returned", filtered |-> Bound(f), value |-> BarFigure(f)]

\* go.Heatmap over filtered_df.drop(['GENDER', 'LUNG_CANCER'], axis=1).corr():
\* the figure is kept as its axis labels and the numeric columns the Pearson
\* coefficients are computed from.
HeatmapFigure(f) ==
    LET cols == DropColumns(Columns, {"GENDER", "LUNG_CANCER"})
    IN  [kind |-> "heatmap", title |-> "Correlation Heatmap of Factors",
         labels |-> cols,
         data |-> Listed([i \in 1..Len(f) |-> [c \in Range(cols) |-> f[i][c]]], Len(f))]

update_correlation_heatmap(d, g, r) ==
    LET f == HeatmapFiltered(d, g, r)
    IN  [outcome |-> "returned", filtered |-> Bound(f), value |-> HeatmapFigure(f)]

\* The columns update_summary takes the most common symptom among.
SummaryColumns == DropColumns(Columns, {"GENDER", "AGE", "LUNG_CANCER"})

\* The f-string built by update_summary, as the values formatted into it
\* (percentage and average age in hundredths).  Only called on a non-empty
\* frame: the division of the line before it raises otherwise.
SummaryText(f) ==
    [total_count |-> Len(f),
     cancer_count |-> CountYes(f),
     cancer_percentage |-> Format2f(100 * CountYes(f), Len(f)),
     avg_age |-> Format2f(ColumnSum(f, "AGE"), Len(f)),
     top_symptom |-> IdxMax(SummaryColumns, Sums(f, SummaryColumns))]

\* What the body of update_summary hands back once the text is built: the
\* function ends after the assignment to summary, without a return statement.
SummaryReturn(text) == NoValue

update_summary(d, g, r) ==
    LET f == SummaryFiltered(d, g, r)
    IN  IF Len(f) = 0
        THEN [outcome |-> "ZeroDivisionError", filtered |-> Bound(f),
              value |-> NoValue, summary |-> Unbound]
        ELSE [outcome |-> "returned", filtered |-> Bound(f),
              value |-> SummaryReturn(SummaryText(f)),
              summary |-> [bound |-> TRUE, text |-> SummaryText(f)]]

\* Variant: the filtered frame is assigned to the global name df.
DfAfterCallback_Rebound(d, f) == f

\* The global df after a callback has bound its filtered frame: the mask
\* indexing builds a new frame under the local name filtered_df.
DfAfterCallback(d, f) == d

\* ------------------------------------------------------------ the page
\* The input values the framework passes to a callback, kept per callback
\* for its last invocation (NoArgs before the first).
NoArgs == [called |-> FALSE]
Args(cb) ==
    IF cb = "update_scatter_plot"
    THEN [x_col |-> x_col, y_col |-> y_col, gender |-> gender, age_range |-> age_range]
    ELSE [gender |-> gender, age_range |-> age_range]

\* One invocation of callback cb with result res: a returned value is
\* delivered to the callback's Output; PreventUpdate or an exception leaves
\* the output as it was.
Invoke(cb, res) ==
    /\ cb \in pending
    /\ pending' = pending \ {cb}
    /\ filtered' = [filtered EXCEPT ![cb] = res.filtered]
    /\ outcome' = [outcome EXCEPT ![cb] = res.outcome]
    /\ out' = IF res.outcome = "returned" THEN [out EXCEPT ![cb] = res.value] ELSE out
    /\ df' = IF res.filtered.bound THEN DfAfterCallback(df, res.filtered.frame) ELSE df
    /\ args' = [args EXCEPT ![cb] = Args(cb)]
    /\ UNCHANGED <<loaded, x_col, y_col, gender, age_range, changes>>

CallScatterPlot ==
    /\ Invoke("update_scatter_plot",
              update_scatter_plot(df, x_col, y_col, gender, age_range))
    /\ UNCHANGED summary

CallSymptomsBarChart ==
    /\ Invoke("update_symptoms_bar_chart",
              update_symptoms_bar_chart(df, gender, age_range))
    /\ UNCHANGED summary

CallCorrelationHeatmap ==
    /\ Invoke("update_correlation_heatmap",
              update_correlation_heatmap(df, gender, age_range))
    /\ UNCHANGED summary

CallSummary ==
    LET res == update_summary(df, gender, age_range)
    IN  /\ Invoke("update_summary", res)
        /\ summary' = res.summary

\* The user changes one control; the framework dispatches the callbacks that
\* take it as an Input.
Change(control) ==
    /\ changes < MaxChanges
    /\ changes' = changes + 1
    /\ pending' = pending \cup Triggered(control)
    /\ UNCHANGED <<df, loaded, args, filtered, outcome, out, summary>>

SetXAxis(v) ==
    /\ v # x_col
    /\ x_col' = v
    /\ Change("x-axis-dropdown")
    /\ UNCHANGED <<y_col, gender, age_range>>

SetYAxis(v) ==
    /\ v # y_col
    /\ y_col' = v
    /\ Change("y-axis-dropdown")
    /\ UNCHANGED <<x_col, gender, age_range>>

SetGender(v) ==
    /\ v # gender
    /\ gender' = v
    /\ Change("gender-filter")
    /\ UNCHANGED <<x_col, y_col, age_range>>

\* The slider hands over its two handles in order, within [min, max].
SetAgeRange(lo, hi) ==
    /\ lo <= hi
    /\ <<lo, hi>> # age_range
    /\ age_range' = <<lo, hi>>
    /\ Change("age-range-slider")
    /\ UNCHANGED <<x_col, y_col, gender>>

\* The state a page load leaves: the controls hold the layout's values, no
\* output holds anything yet, and every callback is dispatched once.
Init ==
    /\ df = SampleDf
    /\ loaded = df
    /\ x_col = "AGE"
    /\ y_col = "SMOKING"
    /\ gender = "All"
    /\ age_range = <<AgeMin(df), AgeMax(df)>>
    /\ pending = Callbacks
    /\ args = [cb \in Callbacks |-> NoArgs]
    /\ filtered = [cb \in Callbacks |-> Unbound]
    /\ outcome = [cb \in Callbacks |-> "not run"]
    /\ out = [cb \in Callbacks |-> NoValue]
    /\ summary = Unbound
    /\ changes = 0

Next ==
    \/ CallScatterPlot
    \/ CallSymptomsBarChart
    \/ CallCorrelationHeatmap
    \/ CallSummary
    \/ \E v \in AxisChoices \cup {None} : SetXAxis(v)
    \/ \E v \in AxisChoices \cup {None} : SetYAxis(v)
    \/ \E v \in GenderOptions : SetGender(v)
    \/ \E lo \in AgeMin(df)..AgeMax(df), hi \in AgeMin(df)..AgeMax(df) : SetAgeRange(lo, hi)

Spec == Init /\ [][Next]_vars

\* One invocation of one callback, for every frame and every input values a
\* request can carry (an age range may arrive with its ends in either order).
InitCall ==
    /\ df \in Datasets
    /\ loaded = df
    /\ \E cb \in Callbacks :
          /\ pending = {cb}
          /\ x_col \in IF cb = "update_scatter_plot"
                       THEN {None, "", "AGE"} ELSE {"AGE"}
          /\ y_col \in IF cb = "update_scatter_plot"
                       THEN {None, "SMOKING"} ELSE {"SMOKING"}
    /\ gender \in GenderOptions
    /\ age_range \in (1..MaxAge) \X (1..MaxAge)
    /\ args = [cb \in Callbacks |-> NoArgs]
    /\ filtered = [cb \in Callbacks |-> Unbound]
    /\ outcome = [cb \in Callbacks |-> "not run"]
    /\ out = [cb \in Callbacks |-> NoValue]
    /\ summary = Unbound
    /\ changes = 0

NextCall ==
    \/ CallScatterPlot
    \/ CallSymptomsBarChart
    \/ CallCorrelationHeatmap
    \/ CallSummary

SpecCall == InitCall /\ [][NextCall]_vars

\* ------------------------------------------------------------ properties
\* The positions of frame d that a selection (gender g, age range r) keeps.
Selected(d, g, r) ==
    {i \in 1..Len(d) : /\ r[1] <= d[i]["AGE"]
                       /\ d[i]["AGE"] <= r[2]
                       /\ (g = "All" \/ d[i]["GENDER"] = g)}

\* Frame f holds exactly the rows of d at the positions S, each once.
HoldsExactly(f, d, S) ==
    /\ Len(f) = Cardinality(S)
    /\ {f[k]["index"] : k \in 1..Len(f)} = {d[i]["index"] : i \in S}
    /\ \A k \in 1..Len(f) : \E i \in S : f[k] = d[i]

\* The sum of column c of d over the positions S.
RECURSIVE SumOver(_, _, _)
SumOver(d, S, c) ==
    IF S = {} THEN 0
    ELSE LET i == CHOOSE j \in S : TRUE
         IN  d[i][c] + SumOver(d, S \ {i}, c)

Called(cb) == args[cb] # NoArgs

\* C1: whatever the gender selection and the age range, each of the four
\* callbacks works on the rows of the data set with lo <= AGE <= hi and, unless
\* the gender selection is 'All', GENDER equal to it: no other row is included
\* and none of these is dropped.
C1_SameFilteredSubset ==
    \A cb \in Callbacks :
        (Called(cb) /\ outcome[cb] # "PreventUpdate") =>
            /\ filtered[cb].bound
            /\ HoldsExactly(filtered[cb].frame, df,
                            Selected(df, args[cb].gender, args[cb].age_range))

\* A callback has run on a selection that keeps some rows and drops others
\* because of their gender.
C1_Witness ==
    \E cb \in Callbacks :
        /\ Called(cb) /\ filtered[cb].bound
        /\ args[cb].gender # "All"
        /\ Len(filtered[cb].frame) > 0
        /\ Cardinality(Selected(df, "All", args[cb].age_range)) > Len(filtered[cb].frame)

\* C2: when update_summary has built its text, the value delivered to the
\* 'summary' output is that text, never None.
C2_SummaryDelivered ==
    outcome["update_summary"] = "returned" =>
        /\ out["update_summary"] # NoValue
        /\ out["update_summary"] = summary.text

\* C5: update_summary completes without raising for every gender selection
\* and age range, a selection that keeps no row included.
C5_SummaryNeverRaises ==
    outcome["update_summary"] # "ZeroDivisionError"

\* C7: the bar chart shows one bar for each of the twelve symptom columns and
\* no other, each as high as the sum of its column over the selected rows, in
\* order of non-increasing height.
C7_BarChart ==
    outcome["update_symptoms_bar_chart"] = "returned" =>
        LET fig == out["update_symptoms_bar_chart"]
            a   == args["update_symptoms_bar_chart"]
            S   == Selected(df, a.gender, a.age_range)
        IN  /\ Len(fig.x) = 12 /\ Len(fig.y) = 12
            /\ Range(fig.x) = Range(symptoms)
            /\ Range(fig.x) \cap {"SMOKING", "AGE", "GENDER", "LUNG_CANCER"} = {}
            /\ \A p \in 1..12 : fig.y[p] = SumOver(df, S, fig.x[p])
            /\ \A p \in 1..11 : fig.y[p] >= fig.y[p + 1]

\* The chart was drawn with bars of at least three different heights.
C7_Witness ==
    /\ outcome["update_symptoms_bar_chart"] = "returned"
    /\ Cardinality(Range(out["update_symptoms_bar_chart"].y)) >= 3

\* C8: for a selection that keeps some row, the most common symptom of the
\* summary is the symptom of the first bar of the bar chart for the same
\* selection: one of the twelve symptoms, with the largest column sum.
C8_TopSymptomIsFirstBar ==
    summary.bound =>
        LET a   == args["update_summary"]
            bar == update_symptoms_bar_chart(df, a.gender, a.age_range).value
        IN  /\ summary.text.top_symptom \in Range(symptoms)
            /\ summary.text.top_symptom = bar.x[1]

\* The result of callback cb on frame d with the input values a.
Apply(cb, d, a) ==
    CASE cb = "update_scatter_plot" ->
            update_scatter_plot(d, a.x_col, a.y_col, a.gender, a.age_range)
      [] cb = "update_symptoms_bar_chart" ->
            update_symptoms_bar_chart(d, a.gender, a.age_range)
      [] cb = "update_correlation_heatmap" ->
            update_correlation_heatmap(d, a.gender, a.age_range)
      [] cb = "update_summary" ->
            update_summary(d, a.gender, a.age_range)

\* Every output delivered by the last run of its callback shows what the
\* callback makes of the controls as they stand.
OutputsCurrent ==
    \A cb \in Callbacks :
        outcome[cb] = "returned" => out[cb] = Apply(cb, df, Args(cb)).value

\* A change of a dropdown dispatches update_scatter_plot and nothing else, and
\* an output changes only in a run of its own callback, dispatched before.
DropdownStep ==
    /\ (x_col' # x_col \/ y_col' # y_col) =>
          /\ pending' = pending \cup {"update_scatter_plot"}
          /\ out' = out
    /\ \A cb \in Callbacks : cb \notin pending => out'[cb] = out[cb]

\* C3: after any sequence of control changes, once the dispatched callbacks
\* have run, every updated output reflects the current values of the controls
\* it depends on (all four for the scatter plot, gender and age range for the
\* others); a change of the x-axis or y-axis dropdown alone dispatches
\* update_scatter_plot only and leaves the other three outputs as they are.
C3_OutputsReflectControls ==
    /\ [](pending = {} => OutputsCurrent)
    /\ [][DropdownStep]_vars

\* The user has changed the gender and a dropdown, and all callbacks have run.
C3_Witness ==
    /\ pending = {}
    /\ changes >= 2
    /\ gender # "All"
    /\ x_col = "SMOKING"
    /\ \A cb \in Callbacks : outcome[cb] = "returned"

\* C4: no callback modifies the loaded data set, and the result of each
\* invocation is the function of its input values and the data set loaded at
\* startup, whatever ran before it.
C4_NoStateBetweenInvocations ==
    /\ df = loaded
    /\ \A cb \in Callbacks :
          Called(cb) =>
              LET res == Apply(cb, loaded, args[cb])
              IN  /\ outcome[cb] = res.outcome
                  /\ filtered[cb] = res.filtered
                  /\ (res.outcome = "returned" => out[cb] = res.value)

\* The user has changed a control and changed it back, and the callbacks
\* dispatched have run again on the input values of the page load.
C4_Witness ==
    /\ pending = {}
    /\ changes >= 2
    /\ x_col = "AGE" /\ y_col = "SMOKING"
    /\ \A cb \in Callbacks :
          /\ Called(cb)
          /\ args[cb].gender = "All"
          /\ args[cb].age_range = <<AgeMin(loaded), AgeMax(loaded)>>
          /\ Len(filtered[cb].frame) = Len(loaded)

\* The figure shows one point per position of S, with the values of columns x
\* and y of that row, coloured by its label.
ScatterShows(fig, d, S, x, y) ==
    /\ fig.kind = "scatter"
    /\ Len(fig.points) = Cardinality(S)
    /\ {fig.points[k].index : k \in 1..Len(fig.points)} = {d[i]["index"] : i \in S}
    /\ \A k \in 1..Len(fig.points) :
          \E i \in S : /\ fig.points[k].index = d[i]["index"]
                       /\ fig.points[k].x = d[i][x]
                       /\ fig.points[k].y = d[i][y]
                       /\ fig.points[k].color = d[i]["LUNG_CANCER"]

ScatterStep ==
    ("update_scatter_plot" \in pending /\ "update_scatter_plot" \notin pending') =>
        IF Falsy(x_col) \/ Falsy(y_col)
        THEN /\ outcome'["update_scatter_plot"] = "PreventUpdate"
             /\ out'["update_scatter_plot"] = out["update_scatter_plot"]
             /\ ~filtered'["update_scatter_plot"].bound
        ELSE /\ outcome'["update_scatter_plot"] = "returned"
             /\ ScatterShows(out'["update_scatter_plot"], df,
                             Selected(df, gender, age_range), x_col, y_col)

\* C6: update_scatter_plot raises PreventUpdate, leaving the figure shown as
\* it is and before any filtering, exactly when the x-axis or the y-axis value
\* is empty; otherwise it returns a figure of the selected rows with the
\* chosen columns, coloured by LUNG_CANCER.
C6_ScatterGuard == [][ScatterStep]_vars

\* A cleared dropdown has left an earlier figure on show.
C6_Witness ==
    /\ outcome["update_scatter_plot"] = "PreventUpdate"
    /\ out["update_scatter_plot"] # NoValue
    /\ Len(out["update_scatter_plot"].points) > 0

====
